---- MODULE Spec2Model ----
(***************************************************************************)
(* state-manager: one shared slot State<T> = Arc<RwLock<Option<T>>>, the   *)
(* read accessor Getter::get and the setter closure built by new_state.    *)
(*                                                                         *)
(* The slot is modelled as the two words of an Option<T> (discriminant and *)
(* payload) behind a std RwLock (a set of read-guard holders, one write    *)
(* guard holder, a poison flag).  Every thread runs get() and set() calls; *)
(* each call is cut at the points where it touches the lock or the words.  *)
(***************************************************************************)
EXTENDS Integers, FiniteSets, Sequences, TLC

\* ------------------------------------------------------------------ bounds
\* calls the threads may start in total
MaxCalls == 3
\* payloads are 1..MaxPayload
MaxPayload == 2
\* calls the single thread of SpecSeq may start
MaxSeq == 3
\* readers of the writer/readers scenario (the test starts ten)
NumReaders == 3
\* calls made in all in a run checked for termination
MaxFairCalls == 2

\* ------------------------------------------------------------------ values
\* Option<T> as <<discriminant, payload>>
None == <<0, 0>>
Some(v) == <<1, v>>
Payloads == 1..MaxPayload
Vals == {None} \cup {Some(v) : v \in Payloads}
\* "no value recorded" for the history variables and for results not yet produced
NoVal == <<2, 0>>
\* the threads of Spec, each holding a clone of the handle and the setter
Threads == {1, 2, 3}

\* error::Result<()> values of the setter
OkUnit == "Ok"
ErrDefaultLockError == "Err(Default(Lock error))"
ErrMismatchedTypes == "Err(MismatchedTypes)"
NoRes == "-"

VARIABLES
    data,       \* the two words of the Option<T> inside the RwLock
    readers,    \* threads holding a read guard
    writer,     \* the thread holding the write guard: a set of at most one
    poisoned,   \* the RwLock's poison flag
    pc,         \* where each thread is inside its current call
    arg,        \* the argument of the thread's set() call in progress
    tmp,        \* the discriminant a get() in progress has read
    ret,        \* the Option<T> a get() is about to return
    sres,       \* the Result a set() is about to return
    budget,     \* calls that may still be started
    oneShot,    \* each thread ends after its first call (the tests' spawned threads)
    \* history variables (never read by the operations)
    initial,    \* the argument new_state was called with
    setEntered, \* some set() has entered its exclusive section
    full,       \* the last value the slot held in full
    committed,  \* argument of the last completed exclusive section, NoVal while a set() is inside one
    returned,   \* argument of the last set() that returned Ok, NoVal once a later set() entered
    lastSet,    \* argument of the most recently called set()
    expC,       \* committed, as the get() in progress found it when it began
    expR,       \* returned, as the get() in progress found it when it began
    seen,       \* values the slot held in full while the get() in progress ran
    sawPoison,  \* poison flag as the call in progress found it on acquiring the lock
    lastGot,    \* what the last get() read, NoVal once a set() has entered since
    expG,       \* lastGot, as the get() in progress found it when it began
    lastEntered,\* argument of the set() that last entered the Ok arm of its exclusive section
    atRead,     \* the last value held in full when the get() in progress took the read lock
    \* the environment of the calls
    writerPref, \* the RwLock's policy: a waiting writer keeps new readers out
    owns,       \* threads holding a clone of the handle
    setterAlive,\* the setter closure has not been dropped
    freed,      \* the Arc's storage has been reclaimed
    \* two slots made by two new_state calls (SpecTwo)
    cells,      \* the allocated RwLock<Option<T>> cells
    cellOf,     \* the cell each slot's handle and setter refer to
    call        \* the call each thread has in progress on one of the two slots

vars == <<data, readers, writer, poisoned, pc, arg, tmp, ret, sres, budget, oneShot,
          initial, setEntered, full, committed, returned, lastSet, expC, expR, seen, sawPoison,
          lastGot, expG, lastEntered, atRead,
          writerPref, owns, setterAlive, freed, cells, cellOf, call>>

lockVars == <<readers, writer, poisoned>>
histVars == <<initial, setEntered, full, committed, returned, lastSet, expC, expR, seen, sawPoison>>
hist2 == <<lastGot, expG, lastEntered, atRead>>
arcVars == <<owns, setterAlive, freed>>
twoVars == <<cells, cellOf, call>>
envVars == <<oneShot, writerPref, arcVars, twoVars>>

\* ------------------------------------------------------------- new_state
\* mutant: the storage always starts empty
NewStateEmpty(d) == None
\* the storage new_state allocates for `d`
NewState(d) == IF d[1] = 1 THEN Some(d[2]) ELSE None

\* the slot and its threads right after new_state(d), d drawn from `inits`
InitSlot(ts, inits, n, once) ==
    /\ \E d \in inits : data = NewState(d) /\ initial = d /\ committed = d /\ full = d
    /\ readers = {}
    /\ writer = {}
    /\ poisoned = FALSE
    /\ pc = [t \in ts |-> "idle"]
    /\ arg = [t \in ts |-> NoVal]
    /\ tmp = [t \in ts |-> 0]
    /\ ret = [t \in ts |-> NoVal]
    /\ sres = [t \in ts |-> NoRes]
    /\ budget = n
    /\ oneShot = once
    /\ setEntered = FALSE
    /\ returned = NoVal
    /\ lastSet = NoVal
    /\ expC = [t \in ts |-> NoVal]
    /\ expR = [t \in ts |-> NoVal]
    /\ seen = [t \in ts |-> {}]
    /\ sawPoison = [t \in ts |-> FALSE]
    /\ lastGot = NoVal
    /\ expG = [t \in ts |-> NoVal]
    /\ lastEntered = NoVal
    /\ atRead = [t \in ts |-> NoVal]

\* every thread keeps its handle clone and the setter stays alive
InitArcKept(ts) == owns = ts /\ setterAlive = TRUE /\ freed = FALSE
\* no second slot
InitOneSlot == cells = <<>> /\ cellOf = <<>> /\ call = <<>>

\* readers are let in whenever no writer is inside: every behaviour of a lock
\* that also keeps them out while a writer waits is one of these behaviours
InitWith(ts, inits, n, once) ==
    /\ InitSlot(ts, inits, n, once)
    /\ writerPref = FALSE
    /\ InitArcKept(ts)
    /\ InitOneSlot

\* new_state(d) for any d, the handle and the setter shared by all threads
Init == InitWith(Threads, Vals, MaxCalls, FALSE)

\* ------------------------------------------------------------- RwLock
\* mutant: read access granted while a writer is inside
CanReadAlways(t) == TRUE
\* mutant: a Mutex in place of the RwLock, a reader excludes other readers
CanReadExclusive(t) == writer = {} /\ readers = {}

\* RwLock::read is granted when no write guard is out; std leaves open whether
\* a writer waiting in write() keeps new readers out, writerPref says which
CanRead(t) == writer = {} /\ (writerPref => \A u \in DOMAIN pc : pc[u] # "s_lock")
\* mutant: a write guard is handed out although another writer holds one
CanWriteDespiteWriter(t) == readers = {}

\* mutant: write access granted while readers are inside
CanWriteDespiteReaders(t) == writer = {}
\* RwLock::write is granted when no guard at all is out
CanWrite(t) == writer = {} /\ readers = {}

\* ------------------------------------------------------------- get()
\* the calling thread enters get()
GetCall(t) ==
    /\ pc[t] = "idle"
    /\ budget > 0
    /\ budget' = budget - 1
    /\ pc' = [pc EXCEPT ![t] = "g_lock"]
    /\ expC' = [expC EXCEPT ![t] = committed]
    /\ expR' = [expR EXCEPT ![t] = returned]
    /\ seen' = [seen EXCEPT ![t] = {full}]
    /\ expG' = [expG EXCEPT ![t] = lastGot]
    /\ UNCHANGED <<data, lockVars, arg, tmp, ret, sres, envVars, lastGot, lastEntered, atRead,
                   initial, setEntered, full, committed, returned, lastSet, sawPoison>>

\* mutant: the arms of the match swapped
GetArmSwapped(p) == IF p THEN "g_tag" ELSE "g_err"
\* which arm of `match self.read()` is taken
GetArm(p) == IF p THEN "g_err" ELSE "g_tag"

\* self.read(): blocks while a writer is inside; the guard is held in both arms
GetAcquire(t) ==
    /\ pc[t] = "g_lock"
    /\ CanRead(t)
    /\ readers' = readers \cup {t}
    /\ pc' = [pc EXCEPT ![t] = GetArm(poisoned)]
    /\ sawPoison' = [sawPoison EXCEPT ![t] = poisoned]
    /\ atRead' = [atRead EXCEPT ![t] = full]
    /\ UNCHANGED <<data, writer, poisoned, arg, tmp, ret, sres, budget, envVars, lastGot, expG, lastEntered,
                   initial, setEntered, full, committed, returned, lastSet, expC, expR, seen>>

\* state_guard.clone(): the discriminant is read first
GetReadTag(t) ==
    /\ pc[t] = "g_tag"
    /\ tmp' = [tmp EXCEPT ![t] = data[1]]
    /\ pc' = [pc EXCEPT ![t] = "g_val"]
    /\ UNCHANGED <<data, lockVars, arg, ret, sres, budget, envVars, hist2, histVars>>

\* the value Option::clone builds from the discriminant read and the payload
CloneOf(tag, payload) == IF tag = 1 THEN Some(payload) ELSE None

\* mutant: the value is moved out of the slot (Option::take) instead of cloned
GetReadValTake(t) ==
    /\ pc[t] = "g_val"
    /\ ret' = [ret EXCEPT ![t] = CloneOf(tmp[t], data[2])]
    /\ data' = None
    /\ readers' = readers \ {t}
    /\ pc' = [pc EXCEPT ![t] = "g_ret"]
    /\ lastGot' = ret'[t]
    /\ UNCHANGED <<writer, poisoned, arg, tmp, sres, budget, envVars, expG, lastEntered, atRead, histVars>>

\* mutant: the read guard is kept past the end of the Ok arm
GetReadValKeepGuard(t) ==
    /\ pc[t] = "g_val"
    /\ ret' = [ret EXCEPT ![t] = CloneOf(tmp[t], data[2])]
    /\ pc' = [pc EXCEPT ![t] = "g_ret"]
    /\ lastGot' = ret'[t]
    /\ UNCHANGED <<data, lockVars, arg, tmp, sres, budget, envVars, expG, lastEntered, atRead, histVars>>

\* the clone is completed and the read guard dropped at the end of the Ok arm
GetReadVal(t) ==
    /\ pc[t] = "g_val"
    /\ ret' = [ret EXCEPT ![t] = CloneOf(tmp[t], data[2])]
    /\ readers' = readers \ {t}
    /\ pc' = [pc EXCEPT ![t] = "g_ret"]
    /\ lastGot' = ret'[t]
    /\ UNCHANGED <<data, writer, poisoned, arg, tmp, sres, budget, envVars, expG, lastEntered, atRead, histVars>>

\* mutant: the poisoned guard is recovered and its contents returned
GetErrRecover(t) ==
    /\ pc[t] = "g_err"
    /\ ret' = [ret EXCEPT ![t] = data]
    /\ readers' = readers \ {t}
    /\ pc' = [pc EXCEPT ![t] = "g_ret"]
    /\ lastGot' = ret'[t]
    /\ UNCHANGED <<data, writer, poisoned, arg, tmp, sres, budget, envVars, expG, lastEntered, atRead, histVars>>

\* Err(_) => None; the guard inside the PoisonError is dropped with it
GetErr(t) ==
    /\ pc[t] = "g_err"
    /\ ret' = [ret EXCEPT ![t] = None]
    /\ readers' = readers \ {t}
    /\ pc' = [pc EXCEPT ![t] = "g_ret"]
    /\ lastGot' = ret'[t]
    /\ UNCHANGED <<data, writer, poisoned, arg, tmp, sres, budget, envVars, expG, lastEntered, atRead, histVars>>

\* where a thread goes when its call has returned
After(once) == IF once THEN "done" ELSE "idle"

\* get() returns to its caller
GetReturn(t) ==
    /\ pc[t] = "g_ret"
    /\ pc' = [pc EXCEPT ![t] = After(oneShot)]
    /\ ret' = [ret EXCEPT ![t] = NoVal]
    /\ tmp' = [tmp EXCEPT ![t] = 0]
    /\ expC' = [expC EXCEPT ![t] = NoVal]
    /\ expR' = [expR EXCEPT ![t] = NoVal]
    /\ seen' = [seen EXCEPT ![t] = {}]
    /\ sawPoison' = [sawPoison EXCEPT ![t] = FALSE]
    /\ expG' = [expG EXCEPT ![t] = NoVal]
    /\ atRead' = [atRead EXCEPT ![t] = NoVal]
    /\ UNCHANGED <<data, lockVars, arg, sres, budget, envVars, lastGot, lastEntered,
                   initial, setEntered, full, committed, returned, lastSet>>

\* ------------------------------------------------------------- set()
\* the calling thread invokes the setter closure with `v`
SetCall(t, v) ==
    /\ pc[t] = "idle"
    /\ budget > 0
    /\ budget' = budget - 1
    /\ arg' = [arg EXCEPT ![t] = v]
    /\ pc' = [pc EXCEPT ![t] = "s_lock"]
    /\ lastSet' = v
    /\ UNCHANGED <<data, lockVars, tmp, ret, sres, envVars, hist2,
                   initial, setEntered, full, committed, returned, expC, expR, seen, sawPoison>>

\* mutant: the poison error is ignored and the write goes ahead
SetArmIgnorePoison(p) == "s_tag"
\* which arm of `match state_guard_result` is taken
SetArm(p) == IF p THEN "s_err" ELSE "s_tag"

\* state_for_setter.write(): blocks while any guard is out; held in both arms
SetAcquire(t) ==
    /\ pc[t] = "s_lock"
    /\ CanWrite(t)
    /\ writer' = writer \cup {t}
    /\ pc' = [pc EXCEPT ![t] = SetArm(poisoned)]
    /\ sawPoison' = [sawPoison EXCEPT ![t] = poisoned]
    /\ setEntered' = TRUE
    /\ committed' = NoVal
    /\ returned' = NoVal
    /\ expC' = [u \in DOMAIN pc |-> NoVal]
    /\ expR' = [u \in DOMAIN pc |-> NoVal]
    /\ lastEntered' = IF poisoned THEN lastEntered ELSE arg[t]
    /\ lastGot' = NoVal
    /\ expG' = [u \in DOMAIN pc |-> NoVal]
    /\ UNCHANGED <<data, readers, poisoned, arg, tmp, ret, sres, budget, envVars, atRead,
                   initial, full, lastSet, seen>>

\* mutant: a merge instead of a full replace, None leaves the old value in place
SetWriteTagMerge(t) ==
    /\ pc[t] = "s_tag"
    /\ data' = <<IF arg[t][1] = 1 THEN 1 ELSE data[1], data[2]>>
    /\ pc' = [pc EXCEPT ![t] = "s_val"]
    /\ UNCHANGED <<lockVars, arg, tmp, ret, sres, budget, envVars, hist2, histVars>>

\* *state_guard = data, first word
SetWriteTag(t) ==
    /\ pc[t] = "s_tag"
    /\ data' = <<arg[t][1], data[2]>>
    /\ pc' = [pc EXCEPT ![t] = "s_val"]
    /\ UNCHANGED <<lockVars, arg, tmp, ret, sres, budget, envVars, hist2, histVars>>

\* mutant: the payload is written to a private copy and never reaches the slot
SetWriteValLost(t) ==
    /\ pc[t] = "s_val"
    /\ data' = data
    /\ pc' = [pc EXCEPT ![t] = "s_unlock"]
    /\ seen' = [u \in DOMAIN pc |->
                   IF pc[u] \in {"g_lock", "g_tag", "g_val", "g_err"}
                   THEN seen[u] \cup {arg[t]} ELSE seen[u]]
    /\ full' = arg[t]
    /\ UNCHANGED <<lockVars, arg, tmp, ret, sres, budget, envVars, hist2,
                   initial, setEntered, committed, returned, lastSet, expC, expR, sawPoison>>

\* *state_guard = data, second word: the slot now holds the argument in full
SetWriteVal(t) ==
    /\ pc[t] = "s_val"
    /\ data' = <<data[1], arg[t][2]>>
    /\ pc' = [pc EXCEPT ![t] = "s_unlock"]
    /\ seen' = [u \in DOMAIN pc |->
                   IF pc[u] \in {"g_lock", "g_tag", "g_val", "g_err"}
                   THEN seen[u] \cup {arg[t]} ELSE seen[u]]
    /\ full' = arg[t]
    /\ UNCHANGED <<lockVars, arg, tmp, ret, sres, budget, envVars, hist2,
                   initial, setEntered, committed, returned, lastSet, expC, expR, sawPoison>>

\* mutant: the write guard is leaked (mem::forget) instead of dropped
SetReleaseKeepGuard(t) ==
    /\ pc[t] = "s_unlock"
    /\ sres' = [sres EXCEPT ![t] = OkUnit]
    /\ pc' = [pc EXCEPT ![t] = "s_ret"]
    /\ committed' = arg[t]
    /\ UNCHANGED <<data, lockVars, arg, tmp, ret, budget, envVars, hist2,
                   initial, setEntered, full, returned, lastSet, expC, expR, seen, sawPoison>>

\* the write guard is dropped at the end of the Ok arm, the result is Ok(())
SetRelease(t) ==
    /\ pc[t] = "s_unlock"
    /\ writer' = writer \ {t}
    /\ sres' = [sres EXCEPT ![t] = OkUnit]
    /\ pc' = [pc EXCEPT ![t] = "s_ret"]
    /\ committed' = arg[t]
    /\ UNCHANGED <<data, readers, poisoned, arg, tmp, ret, budget, envVars, hist2,
                   initial, setEntered, full, returned, lastSet, expC, expR, seen, sawPoison>>

\* mutant: the Err arm reports the other variant of StateError
SetErrMismatched(t) ==
    /\ pc[t] = "s_err"
    /\ writer' = writer \ {t}
    /\ sres' = [sres EXCEPT ![t] = ErrMismatchedTypes]
    /\ pc' = [pc EXCEPT ![t] = "s_ret"]
    /\ UNCHANGED <<data, readers, poisoned, arg, tmp, ret, budget, envVars, hist2, histVars>>

\* mutant: the Err arm recovers the guard from the PoisonError and stores through it
SetErrStores(t) ==
    /\ pc[t] = "s_err"
    /\ data' = arg[t]
    /\ writer' = writer \ {t}
    /\ sres' = [sres EXCEPT ![t] = ErrDefaultLockError]
    /\ pc' = [pc EXCEPT ![t] = "s_ret"]
    /\ UNCHANGED <<readers, poisoned, arg, tmp, ret, budget, envVars, hist2, histVars>>

\* mutant: the Err arm calls clear_poison on the lock before reporting the error
SetErrClearsPoison(t) ==
    /\ pc[t] = "s_err"
    /\ poisoned' = FALSE
    /\ writer' = writer \ {t}
    /\ sres' = [sres EXCEPT ![t] = ErrDefaultLockError]
    /\ pc' = [pc EXCEPT ![t] = "s_ret"]
    /\ UNCHANGED <<data, readers, arg, tmp, ret, budget, envVars, hist2, histVars>>

\* Err(_) => Err(Default("Lock error")); state_guard_result, with the guard
\* inside its PoisonError, is dropped when the closure body ends
SetErr(t) ==
    /\ pc[t] = "s_err"
    /\ writer' = writer \ {t}
    /\ sres' = [sres EXCEPT ![t] = ErrDefaultLockError]
    /\ pc' = [pc EXCEPT ![t] = "s_ret"]
    /\ UNCHANGED <<data, readers, poisoned, arg, tmp, ret, budget, envVars, hist2, histVars>>

\* the closure returns to its caller
SetReturn(t) ==
    /\ pc[t] = "s_ret"
    /\ pc' = [pc EXCEPT ![t] = After(oneShot)]
    /\ returned' = IF sres[t] = OkUnit THEN arg[t] ELSE returned
    /\ sres' = [sres EXCEPT ![t] = NoRes]
    /\ arg' = [arg EXCEPT ![t] = NoVal]
    /\ sawPoison' = [sawPoison EXCEPT ![t] = FALSE]
    /\ UNCHANGED <<data, lockVars, tmp, ret, budget, envVars, hist2,
                   initial, setEntered, full, committed, lastSet, expC, expR, seen>>

\* the old value's destructor panics inside `*state_guard = data`: the unwind
\* path still moves the new value in, the guard is dropped while panicking
\* (which poisons the lock) and the calling thread ends
SetPanic(t) ==
    /\ pc[t] = "s_tag"
    /\ data[1] = 1
    /\ data' = arg[t]
    /\ full' = arg[t]
    /\ poisoned' = TRUE
    /\ writer' = writer \ {t}
    /\ pc' = [pc EXCEPT ![t] = "dead"]
    /\ arg' = [arg EXCEPT ![t] = NoVal]
    /\ sawPoison' = [sawPoison EXCEPT ![t] = FALSE]
    /\ seen' = [u \in DOMAIN pc |->
                   IF pc[u] \in {"g_lock", "g_tag", "g_val", "g_err"}
                   THEN seen[u] \cup {arg[t]} ELSE seen[u]]
    /\ UNCHANGED <<readers, tmp, ret, sres, budget, envVars, hist2,
                   initial, setEntered, committed, returned, lastSet, expC, expR>>

\* the handle is the bare Arc<RwLock<Option<T>>>: its holder can take the write
\* lock itself and store through the guard, `*state.write().unwrap() = v`
HandleWrite(t, v) ==
    /\ pc[t] = "idle"
    /\ budget > 0
    /\ CanWrite(t)
    /\ ~poisoned
    /\ budget' = budget - 1
    /\ data' = v
    /\ full' = v
    /\ committed' = NoVal
    /\ returned' = NoVal
    /\ expC' = [u \in DOMAIN pc |-> NoVal]
    /\ expR' = [u \in DOMAIN pc |-> NoVal]
    /\ seen' = [u \in DOMAIN pc |->
                   IF pc[u] \in {"g_lock", "g_tag", "g_val", "g_err"}
                   THEN seen[u] \cup {v} ELSE seen[u]]
    /\ lastGot' = NoVal
    /\ expG' = [u \in DOMAIN pc |-> NoVal]
    /\ UNCHANGED <<lockVars, pc, arg, tmp, ret, sres, envVars, lastEntered, atRead,
                   initial, setEntered, lastSet, sawPoison>>

\* ------------------------------------------------------------- specifications
GetStep(t) == GetAcquire(t) \/ GetReadTag(t) \/ GetReadVal(t) \/ GetErr(t) \/ GetReturn(t)
SetStep(t) == SetAcquire(t) \/ SetWriteTag(t) \/ SetWriteVal(t) \/ SetRelease(t)
                \/ SetErr(t) \/ SetReturn(t)

\* what one thread can do next: start a call or take the next step of its call
ThreadStep(t) ==
    \/ GetCall(t)
    \/ \E v \in Vals : SetCall(t, v)
    \/ GetStep(t)
    \/ SetStep(t)
    \/ SetPanic(t)

Next == \E t \in Threads : ThreadStep(t)

\* any interleaving of get() and set() calls of the threads on one slot
Spec == Init /\ [][Next]_vars

\* one thread alone issues a sequence of calls
InitSeq == InitWith({1}, Vals, MaxSeq, FALSE)
GetOkStep(t) == GetAcquire(t) \/ GetReadTag(t) \/ GetReadVal(t) \/ GetReturn(t)
SetOkStep(t) == SetAcquire(t) \/ SetWriteTag(t) \/ SetWriteVal(t) \/ SetRelease(t) \/ SetReturn(t)
\* a panic ends the only thread, so the Err arms are never entered
NextSeq ==
    \E t \in {1} :
        \/ GetCall(t)
        \/ \E v \in Vals : SetCall(t, v)
        \/ GetOkStep(t)
        \/ SetOkStep(t)
        \/ SetPanic(t)
SpecSeq == InitSeq /\ [][NextSeq]_vars

\* tests::test_write_blocks_read: the slot starts as Some(0), thread 0 calls
\* setter(Some(42)) once, every other thread calls get() once
ScenarioInitial == 0
ScenarioWritten == 42
Writer == 0
ReaderThreads == 1..NumReaders
InitWR == InitWith({Writer} \cup ReaderThreads, {Some(ScenarioInitial)}, NumReaders + 1, TRUE)
NextWR ==
    \/ SetCall(Writer, Some(ScenarioWritten))
    \/ SetOkStep(Writer)
    \/ \E t \in ReaderThreads : GetCall(t) \/ GetOkStep(t)
SpecWR == InitWR /\ [][NextWR]_vars

\* tests::test_multiple_threads_reading, with the reads repeated: the slot holds
\* Some(v), the threads only call get(); each thread that can take a step
\* eventually takes one
InitReaders == InitWith(Threads, {Some(v) : v \in Payloads}, MaxCalls, FALSE)
NextReaders == \E t \in Threads : GetCall(t) \/ GetOkStep(t)
SpecReaders == InitReaders /\ [][NextReaders]_vars /\ \A t \in Threads : WF_vars(GetOkStep(t))

\* Spec, with the threads also using the handle's own write()
NextHandle == \E t \in Threads : ThreadStep(t) \/ \E v \in Vals : HandleWrite(t, v)
SpecHandle == Init /\ [][NextHandle]_vars

\* ------------------------------------------------------------- lock policy
\* RwLock leaves its priority policy to the platform: a waiting writer may or
\* may not hold back new readers, so either policy is a possible build
InitPolicy(inits, n) ==
    /\ InitSlot(Threads, inits, n, FALSE)
    /\ writerPref \in BOOLEAN
    /\ InitArcKept(Threads)
    /\ InitOneSlot

\* the values the calls of these runs are made with: neither blocking nor
\* termination depends on the value stored
PolicyVals == {None, Some(1)}
NextPolicy ==
    \E t \in Threads :
        \/ GetCall(t)
        \/ \E v \in PolicyVals : SetCall(t, v)
        \/ GetStep(t)
        \/ SetStep(t)
        \/ SetPanic(t)

\* any interleaving of calls under either priority policy of the lock
SpecPolicy == InitPolicy(PolicyVals, MaxCalls) /\ [][NextPolicy]_vars

\* every thread that can take a step of its call eventually takes one; a
\* panic is never forced
SpecFair ==
    /\ InitPolicy(PolicyVals, MaxFairCalls)
    /\ [][NextPolicy]_vars
    /\ \A t \in Threads : WF_vars(GetStep(t)) /\ WF_vars(SetStep(t))

\* ------------------------------------------------------------- ownership
\* everything but the reference holders
nonArcVars == <<data, lockVars, pc, arg, tmp, ret, sres, budget, oneShot,
                histVars, hist2, writerPref, twoVars>>

\* mutant: the closure captures a non-owning pointer to the storage
SetterHoldsNothing(alive) == 0
\* what the setter adds to the strong count: it owns the clone made for it
SetterHolds(alive) == IF alive THEN 1 ELSE 0
\* the strong count of the Arc: one per handle, one for the setter's capture
StrongCount(handles, alive) == Cardinality(handles) + SetterHolds(alive)

\* new_state hands the one handle and the setter to its caller, thread 1
InitArc ==
    /\ InitSlot(Threads, PolicyVals, MaxCalls, FALSE)
    /\ writerPref = FALSE
    /\ owns = {1} /\ setterAlive = TRUE /\ freed = FALSE
    /\ InitOneSlot

\* Arc::clone(&state): thread t, between its calls, gives thread u a handle
CloneHandle(t, u) ==
    /\ t \in owns /\ u \notin owns
    /\ pc[t] = "idle" /\ pc[u] = "idle"
    /\ owns' = owns \cup {u}
    /\ UNCHANGED <<setterAlive, freed, nonArcVars>>

\* thread t's handle is dropped: between its calls, or when the thread has
\* ended in a panic; the storage goes with the last reference
DropHandle(t) ==
    /\ t \in owns
    /\ pc[t] \in {"idle", "dead"}
    /\ owns' = owns \ {t}
    /\ freed' = (StrongCount(owns', setterAlive) = 0)
    /\ UNCHANGED <<setterAlive, nonArcVars>>

\* the setter is dropped, with no call of it in progress, and its captured
\* reference with it
DropSetter ==
    /\ setterAlive
    /\ \A t \in Threads : pc[t] \notin {"s_lock", "s_tag", "s_val", "s_unlock", "s_err", "s_ret"}
    /\ setterAlive' = FALSE
    /\ freed' = (StrongCount(owns, FALSE) = 0)
    /\ UNCHANGED <<owns, nonArcVars>>

\* get() needs a handle, a setter call needs the setter
NextArc ==
    \/ \E t \in Threads :
          \/ t \in owns /\ GetCall(t)
          \/ setterAlive /\ \E v \in PolicyVals : SetCall(t, v)
          \/ GetStep(t)
          \/ SetStep(t)
          \/ SetPanic(t)
          \/ \E u \in Threads : CloneHandle(t, u)
          \/ DropHandle(t)
    \/ DropSetter

\* calls interleaved with handles cloned and dropped and the setter dropped
SpecArc == InitArc /\ [][NextArc]_vars

\* ------------------------------------------------------------- two slots
\* the single-slot variables, left alone by the two-slot operations
oneVars == <<data, readers, writer, poisoned, pc, arg, tmp, ret, sres, oneShot,
             histVars, hist2, writerPref, arcVars>>
Slots == {1, 2}
\* mutant: every new_state call hands out the same process-wide storage
NewCellShared(k) == 1
\* the storage the k-th new_state call allocates: Arc::new makes a fresh one
NewCell(k) == k
NoCall == [pc |-> "idle", slot |-> 0, arg |-> NoVal, ret |-> NoVal, res |-> NoRes]

\* new_state called twice, every thread holding both handles and both setters
InitTwo ==
    /\ InitSlot({}, {None}, MaxCalls, FALSE)
    /\ writerPref = FALSE
    /\ InitArcKept({})
    /\ cellOf = [s \in Slots |-> NewCell(s)]
    /\ \E d \in [Slots -> Vals] :
          cells = [c \in {NewCell(s) : s \in Slots} |->
                      [data |-> NewState(d[CHOOSE s \in Slots : NewCell(s) = c]),
                       readers |-> {}, writer |-> {}, poisoned |-> FALSE]]
    /\ call = [t \in Threads |-> NoCall]

\* the cell behind the slot of thread t's call
CellOfCall(t) == cellOf[call[t].slot]

\* get() on the handle of slot s is entered
TwoGetCall(t, s) ==
    /\ call[t].pc = "idle"
    /\ budget > 0
    /\ budget' = budget - 1
    /\ call' = [call EXCEPT ![t] = [NoCall EXCEPT !.pc = "g_lock", !.slot = s]]
    /\ UNCHANGED <<cells, cellOf, oneVars>>

\* self.read() on the slot's own lock
TwoGetAcquire(t) ==
    /\ call[t].pc = "g_lock"
    /\ cells[CellOfCall(t)].writer = {}
    /\ cells' = [cells EXCEPT ![CellOfCall(t)].readers = @ \cup {t}]
    /\ call' = [call EXCEPT ![t].pc = "g_read"]
    /\ UNCHANGED <<budget, cellOf, oneVars>>

\* the clone (or None on a poisoned lock), the read guard dropped
TwoGetFinish(t) ==
    /\ call[t].pc = "g_read"
    /\ call' = [call EXCEPT ![t].pc = "g_ret",
                           ![t].ret = IF cells[CellOfCall(t)].poisoned THEN None
                                      ELSE cells[CellOfCall(t)].data]
    /\ cells' = [cells EXCEPT ![CellOfCall(t)].readers = @ \ {t}]
    /\ UNCHANGED <<budget, cellOf, oneVars>>

\* the setter of slot s is called with v
TwoSetCall(t, s, v) ==
    /\ call[t].pc = "idle"
    /\ budget > 0
    /\ budget' = budget - 1
    /\ call' = [call EXCEPT ![t] = [NoCall EXCEPT !.pc = "s_lock", !.slot = s, !.arg = v]]
    /\ UNCHANGED <<cells, cellOf, oneVars>>

\* state_for_setter.write() on the slot's own lock
TwoSetAcquire(t) ==
    /\ call[t].pc = "s_lock"
    /\ cells[CellOfCall(t)].writer = {}
    /\ cells[CellOfCall(t)].readers = {}
    /\ cells' = [cells EXCEPT ![CellOfCall(t)].writer = @ \cup {t}]
    /\ call' = [call EXCEPT ![t].pc = "s_write"]
    /\ UNCHANGED <<budget, cellOf, oneVars>>

\* the store (or the error on a poisoned lock), the write guard dropped
TwoSetFinish(t) ==
    /\ call[t].pc = "s_write"
    /\ cells' = [cells EXCEPT ![CellOfCall(t)] =
                    [@ EXCEPT !.writer = @ \ {t},
                              !.data = IF cells[CellOfCall(t)].poisoned THEN @ ELSE call[t].arg]]
    /\ call' = [call EXCEPT ![t].pc = "s_ret",
                           ![t].res = IF cells[CellOfCall(t)].poisoned
                                      THEN ErrDefaultLockError ELSE OkUnit]
    /\ UNCHANGED <<budget, cellOf, oneVars>>

\* the old value's destructor panics during the store: the lock is poisoned
TwoSetPanic(t) ==
    /\ call[t].pc = "s_write"
    /\ ~cells[CellOfCall(t)].poisoned
    /\ cells[CellOfCall(t)].data[1] = 1
    /\ cells' = [cells EXCEPT ![CellOfCall(t)] =
                    [@ EXCEPT !.writer = @ \ {t}, !.data = call[t].arg, !.poisoned = TRUE]]
    /\ call' = [call EXCEPT ![t] = [NoCall EXCEPT !.pc = "dead", !.slot = call[t].slot]]
    /\ UNCHANGED <<budget, cellOf, oneVars>>

\* the call returns to its caller
TwoReturn(t) ==
    /\ call[t].pc \in {"g_ret", "s_ret"}
    /\ call' = [call EXCEPT ![t] = NoCall]
    /\ UNCHANGED <<budget, cells, cellOf, oneVars>>

NextTwo ==
    \E t \in Threads :
        \/ \E s \in Slots : TwoGetCall(t, s)
        \/ \E s \in Slots : \E v \in Vals : TwoSetCall(t, s, v)
        \/ TwoGetAcquire(t) \/ TwoGetFinish(t)
        \/ TwoSetAcquire(t) \/ TwoSetFinish(t) \/ TwoSetPanic(t)
        \/ TwoReturn(t)

\* any interleaving of calls on two slots made by two new_state calls
SpecTwo == InitTwo /\ [][NextTwo]_vars

\* ------------------------------------------------------------- properties
InWrite(t) == pc[t] \in {"s_tag", "s_val", "s_unlock", "s_err"}
InRead(t) == pc[t] \in {"g_tag", "g_val", "g_err"}
AllThreads == DOMAIN pc

\* C1: at most one set() is inside its exclusive section, and while one is
\* inside no get() is inside its read section
C1_MutualExclusion ==
    \A t \in AllThreads : InWrite(t) =>
        \A u \in AllThreads \ {t} : ~InWrite(u) /\ ~InRead(u)

\* two get() calls inside their read sections at once, a set() kept waiting
C1_Witness ==
    \E t, u, w \in AllThreads :
        t # u /\ InRead(t) /\ InRead(u) /\ pc[w] = "s_lock"

\* C2 as stated: a get() that began after a set(x) returned Ok, no set() having
\* entered its exclusive section since that return, returns x
C2_ReturnedVisible ==
    \A t \in AllThreads :
        pc[t] = "g_ret" /\ expR[t] # NoVal => ret[t] = expR[t]

\* C2 amended: a get() that began after a set(x) left its exclusive section,
\* no set() having entered one since, returns x
C2_CommittedVisible ==
    \A t \in AllThreads :
        pc[t] = "g_ret" /\ setEntered /\ expC[t] # NoVal => ret[t] = expC[t]

\* a get() on another thread returns what a completed set() stored over a different value
C2_Witness ==
    \E t \in AllThreads :
        /\ pc[t] = "g_ret" /\ setEntered /\ expC[t] # NoVal
        /\ ret[t] = expC[t] /\ ret[t] # initial

\* C3: a get() on an unpoisoned slot returns a value the slot held in full at
\* some moment between the call's start and its end (the initial value or the
\* whole argument of a set())
C3_NoTornRead ==
    \A t \in AllThreads :
        pc[t] = "g_ret" /\ ~sawPoison[t] => ret[t] \in seen[t]

\* a get() that overlapped a set() returns the new value
C3_Witness ==
    \E t \in AllThreads :
        /\ pc[t] = "g_ret" /\ ~sawPoison[t]
        /\ Cardinality(seen[t]) = 2 /\ ret[t] \in seen[t] /\ ret[t] # initial

\* C4 as stated: in the writer/readers scenario every reader's get() returns Some(42)
C4_AllReadersSee42 ==
    \A t \in ReaderThreads \cap AllThreads :
        pc[t] = "g_ret" => ret[t] = Some(ScenarioWritten)

\* C5: one thread alone: every set() returns Ok, and a get() after a set()
\* returns the argument of the latest set(), whatever the slot held before
C5_WriteThenRead ==
    \A t \in AllThreads :
        /\ pc[t] = "s_ret" => sres[t] = OkUnit
        /\ pc[t] = "g_ret" /\ lastSet # NoVal => ret[t] = lastSet

\* set(None) on a slot created with Some(v), then get() returns None
C5_Witness ==
    \E t \in AllThreads :
        /\ pc[t] = "g_ret" /\ lastSet = None /\ initial # None
        /\ ret[t] = None /\ budget = 0

\* C6: get() before any set() returns the value new_state was given
C6_ConstructionRoundTrip ==
    \A t \in AllThreads :
        pc[t] = "g_ret" /\ ~setEntered => ret[t] = initial

\* new_state(Some(v)), then get() returns Some(v)
C6_Witness ==
    \E t \in AllThreads :
        pc[t] = "g_ret" /\ ~setEntered /\ initial # None /\ ret[t] = initial

\* C7: with readers only, every get() returns the Some(v) the slot holds, and
\* every get() that was called returns
C7_ReadersOnly ==
    /\ [](\A t \in Threads : pc[t] = "g_ret" => ret[t] = initial)
    /\ \A t \in Threads : (pc[t] = "g_lock") ~> (pc[t] = "g_ret")

\* one get() has its result while two others are inside their read sections
C7_Witness ==
    \E t, u, w \in Threads :
        /\ u # w /\ InRead(u) /\ InRead(w)
        /\ pc[t] = "g_ret" /\ ret[t] = initial /\ initial # None

\* C8: a set() returns Err(Default("Lock error")) exactly when it found the
\* lock poisoned, Ok(()) otherwise, and at the end of an unpoisoned exclusive
\* section the slot holds the argument
C8_SetResult ==
    \A t \in AllThreads :
        /\ pc[t] = "s_ret" =>
              sres[t] = (IF sawPoison[t] THEN ErrDefaultLockError ELSE OkUnit)
        /\ pc[t] = "s_unlock" => ~sawPoison[t] /\ data = arg[t]

\* a set() on a poisoned lock is about to return the error
C8_Witness ==
    \E t \in AllThreads :
        pc[t] = "s_ret" /\ sawPoison[t] /\ sres[t] = ErrDefaultLockError

\* C9: a get() that finds the lock poisoned returns None
C9_GetOnPoisoned ==
    \A t \in AllThreads :
        pc[t] = "g_ret" /\ sawPoison[t] => ret[t] = None

\* the slot holds Some(v), the lock is poisoned, get() returns None
C9_Witness ==
    \E t \in AllThreads :
        pc[t] = "g_ret" /\ sawPoison[t] /\ data[1] = 1 /\ ret[t] = None

\* C10 as stated: the slot's contents change only in a step of a setter call
\* inside its exclusive section
C10_OnlySetterWrites ==
    [][data' # data =>
          \E t \in AllThreads : pc[t] \in {"s_tag", "s_val"} /\ pc'[t] # pc[t]]_vars


\* ---- C11
\* thread t is inside the lock of slot s
TwoHolds(t, s) == call[t].slot = s /\ call[t].pc \in {"g_read", "s_write"}
TwoWrites(t, s) == call[t].slot = s /\ call[t].pc = "s_write"
\* thread t makes a step of a call on slot s
TwoStepOn(t, s) == call'[t] # call[t] /\ (call[t].slot = s \/ call'[t].slot = s)

\* C11: two new_state calls give independent slots: they share no storage
\* and no lock, an operation on one slot is blocked only by holders of that
\* same slot's lock, and a step of an operation on one slot (a store, a panic
\* that poisons it) leaves the other slot's value, lock and poison flag as
\* they were
C11_Independent ==
    /\ [](cellOf[1] # cellOf[2])
    /\ [](\A t \in Threads : \A s \in Slots :
            /\ (call[t].pc = "g_lock" /\ call[t].slot = s)
                 => (ENABLED TwoGetAcquire(t) <=> ~\E u \in Threads : TwoWrites(u, s))
            /\ (call[t].pc = "s_lock" /\ call[t].slot = s)
                 => (ENABLED TwoSetAcquire(t) <=> ~\E u \in Threads : TwoHolds(u, s)))
    /\ [][\A t \in Threads : \A s \in Slots : \A o \in Slots \ {s} :
            TwoStepOn(t, s) => cells'[cellOf[o]] = cells[cellOf[o]]]_vars

\* slot 1 is poisoned and a set() on it holds its lock while a get() on
\* slot 2 is inside slot 2's lock and slot 2 is not poisoned
C11_Witness ==
    \E t \in Threads : \E u \in Threads :
        /\ TwoWrites(t, 1)
        /\ cells[cellOf[1]].poisoned
        /\ TwoHolds(u, 2) /\ call[u].pc = "g_read"
        /\ ~cells[cellOf[2]].poisoned

\* ---- C12
\* C12: no operation produces StateError::MismatchedTypes: new_state yields a
\* slot, get() yields an Option, and a setter call yields Ok(()) or
\* Err(Default("Lock error")), on a poisoned lock too
C12_NoMismatchedTypes ==
    /\ initial \in Vals
    /\ \A t \in AllThreads :
          /\ sres[t] # ErrMismatchedTypes
          /\ sres[t] \in {NoRes, OkUnit, ErrDefaultLockError}
          /\ ret[t] \in Vals \cup {NoVal}

\* on a poisoned lock a set() has its error and a get() has its None
C12_Witness ==
    \E t, u \in AllThreads :
        /\ poisoned
        /\ pc[t] = "s_ret" /\ sres[t] = ErrDefaultLockError
        /\ pc[u] = "g_ret" /\ sawPoison[u] /\ ret[u] = None

\* ---- C14
\* thread t takes a step of a get() call, its entry and its return included
GetStepOf(t) ==
    /\ pc'[t] # pc[t]
    /\ \/ pc[t] \in {"g_lock", "g_tag", "g_val", "g_err", "g_ret"}
       \/ pc'[t] = "g_lock"

\* C14: every step of a get(), on the Ok arm and on the poisoned arm, leaves
\* the slot's contents and the poisoned flag as they were; and a get() called
\* after another get() produced its value, no set() having entered its
\* exclusive section since, returns that same value
C14_GetReadOnly ==
    /\ [][\A t \in AllThreads : GetStepOf(t) => data' = data /\ poisoned' = poisoned]_vars
    /\ [](\A t \in AllThreads :
            pc[t] = "g_ret" /\ expG[t] # NoVal => ret[t] = expG[t])

\* a second get() returns the Some(v) the previous one returned, after a set() stored it
C14_Witness ==
    \E t \in AllThreads :
        /\ pc[t] = "g_ret" /\ expG[t] # NoVal /\ ret[t] = expG[t]
        /\ ret[t][1] = 1 /\ ret[t] # initial /\ budget = 0

\* ---- C15
\* C15: on an unpoisoned slot, whenever no set() is inside its exclusive
\* section (in particular when every call has returned) the slot holds the
\* argument of the set() that entered its exclusive section last; and a
\* get() returns the value the slot held in full when its read section
\* began: the argument of the latest set() whose exclusive section was
\* completed by then, or the initial value
C15_WritersSerialize ==
    /\ (~poisoned /\ lastEntered # NoVal /\ \A t \in AllThreads : ~InWrite(t))
          => data = lastEntered
    /\ \A t \in AllThreads :
          pc[t] = "g_ret" /\ ~sawPoison[t] => ret[t] = atRead[t]

\* two overlapping set() calls with different arguments are both through,
\* the slot holds the argument of the later one and a get() has returned it
C15_Witness ==
    \E t, u, w \in AllThreads :
        /\ t # u /\ ~poisoned
        /\ pc[t] = "s_ret" /\ sres[t] = OkUnit
        /\ pc[u] = "s_ret" /\ sres[u] = OkUnit
        /\ arg[t] # arg[u] /\ lastEntered = arg[u] /\ data = arg[u]
        /\ pc[w] = "g_ret" /\ ret[w] = arg[u] /\ atRead[w] = arg[u]

\* ---- C16
\* thread t is in no call, or its call has left the lock and is about to return
OutsideLock(t) == pc[t] \in {"idle", "done", "dead", "g_ret", "s_ret"}
NoCallInProgress == \A t \in AllThreads : pc[t] \in {"idle", "done", "dead"}

\* C16: a get() has dropped its read guard and a set() its write guard before
\* it returns: a thread whose call is about to return, or that is in no call,
\* holds no guard, and when no call is in progress the lock has no reader and
\* no writer
C16_NoLockOutsideCall ==
    /\ \A t \in AllThreads : OutsideLock(t) => t \notin readers /\ t \notin writer
    /\ NoCallInProgress => readers = {} /\ writer = {}

\* every call has returned, a set() and after it a get() among them
C16_Witness ==
    /\ NoCallInProgress
    /\ budget = 0 /\ setEntered /\ lastGot # NoVal
    /\ readers = {} /\ writer = {}

\* ---- C18
\* thread t's set() found the lock poisoned and is about to return its error
SetFailed(t) == pc[t] = "s_ret" /\ sres[t] = ErrDefaultLockError
\* thread t takes a step of a set() that fails: into the Err arm, out of it, or its return
FailedSetStepOf(t) ==
    /\ pc'[t] # pc[t]
    /\ pc'[t] = "s_err" \/ pc[t] = "s_err" \/ SetFailed(t)

\* C18: no step of a set() that fails on a poisoned lock changes the slot's
\* contents (the argument is discarded) or the poisoned flag; when it returns
\* it holds no guard, so a waiting set() can take the lock as soon as no
\* other call holds it, and a waiting get() as soon as no set() holds it or
\* waits for it
C18_FailedSetNoEffect ==
    /\ [][\A t \in AllThreads :
            FailedSetStepOf(t) => data' = data /\ poisoned' = poisoned]_vars
    /\ [](\A t \in AllThreads : SetFailed(t) =>
            /\ t \notin writer /\ t \notin readers
            /\ \A u \in AllThreads :
                  /\ (pc[u] = "g_lock" /\ writer = {} /\ \A w \in AllThreads : pc[w] # "s_lock")
                        => ENABLED GetAcquire(u)
                  /\ (pc[u] = "s_lock" /\ writer = {} /\ readers = {})
                        => ENABLED SetAcquire(u))

\* a set(x) has failed, the slot still holds a value other than x, and
\* another call has taken the lock after it
C18_Witness ==
    \E t, u \in AllThreads :
        /\ t # u /\ SetFailed(t) /\ data # arg[t] /\ data[1] = 1
        /\ pc[u] \in {"g_err", "s_err"}

\* ---- C20
\* C20: once the lock is poisoned no step clears the flag or changes the
\* contents; from then on every set() that takes the lock goes to its Err arm
\* and returns Err(Default("Lock error")), and every get() that takes the
\* lock goes to its Err arm and returns None
C20_PoisonPermanent ==
    /\ [][poisoned => poisoned' /\ data' = data]_vars
    /\ [][\A t \in AllThreads : (poisoned /\ pc'[t] # pc[t]) =>
            /\ pc[t] = "s_lock" => pc'[t] = "s_err"
            /\ pc[t] = "s_err" => pc'[t] = "s_ret" /\ sres'[t] = ErrDefaultLockError
            /\ pc[t] = "g_lock" => pc'[t] = "g_err"
            /\ pc[t] = "g_err" => pc'[t] = "g_ret" /\ ret'[t] = None]_vars
    /\ [](\A t \in AllThreads : pc[t] \in {"s_err", "g_err"} => poisoned)

\* after the poisoning and with every call issued, a set() has its error and
\* a get() its None although the slot holds Some(v)
C20_Witness ==
    \E t, u \in AllThreads :
        /\ poisoned /\ data[1] = 1 /\ budget = 0
        /\ SetFailed(t) /\ sawPoison[t]
        /\ pc[u] = "g_ret" /\ sawPoison[u] /\ ret[u] = None

\* ---- C13
SetInside == \E u \in AllThreads : InWrite(u)
SetWaiting == \E u \in AllThreads : pc[u] = "s_lock"
LockHeld == \E u \in AllThreads : InWrite(u) \/ InRead(u)

\* C13 as stated: a get() waiting for the lock can take it exactly when no
\* set() is inside its exclusive section, also while a set() is waiting; a
\* set() waiting for the lock can take it exactly when no call holds it
C13_BlockingConditions ==
    \A t \in AllThreads :
        /\ pc[t] = "g_lock" => (ENABLED GetAcquire(t) <=> ~SetInside)
        /\ pc[t] = "s_lock" => (ENABLED SetAcquire(t) <=> ~LockHeld)

\* C13 amended: a get() is blocked while a set() is inside its exclusive
\* section and can take the lock at once, also while other get() calls hold
\* it, when no set() is inside or waiting (with a set() waiting the lock's
\* policy decides); a set() can take the lock exactly when no call holds it
C13_BlockingPolicyFree ==
    \A t \in AllThreads :
        /\ pc[t] = "g_lock" =>
              /\ SetInside => ~ENABLED GetAcquire(t)
              /\ (~SetInside /\ ~SetWaiting) => ENABLED GetAcquire(t)
        /\ pc[t] = "s_lock" => (ENABLED SetAcquire(t) <=> ~LockHeld)

\* under the writer-preferring policy, after a set(): a get() can take the
\* lock while another get() holds it
C13_Witness ==
    \E t, u \in AllThreads :
        /\ writerPref /\ setEntered
        /\ InRead(t) /\ pc[u] = "g_lock" /\ ENABLED GetAcquire(u)

\* ---- C19
\* thread t has called get() or set() and the call has not returned yet
Pending(t) == pc[t] \notin {"idle", "done", "dead"}
Waiting(t) == pc[t] \in {"g_lock", "s_lock"}

\* C19: a call waiting for the lock holds no guard, whenever a call is
\* pending some pending call can take a step, and under fair scheduling
\* every call returns unless its thread panicked
C19_DeadlockFree ==
    /\ [](\A t \in Threads : Waiting(t) => t \notin readers /\ t \notin writer)
    /\ []((\E t \in Threads : Pending(t)) =>
            \E u \in Threads : Pending(u) /\ ENABLED (GetStep(u) \/ SetStep(u)))
    /\ \A t \in Threads : Pending(t) ~> (pc[t] \in {"idle", "dead"})

\* under the writer-preferring policy a set() waits for the lock while a
\* get() is inside its read section
C19_Witness ==
    \E t, u \in Threads :
        writerPref /\ pc[t] = "s_lock" /\ InRead(u) /\ ~ENABLED SetAcquire(t)

\* ---- C17
\* thread t's call is at a point where it uses the storage
UsesStorage(t) ==
    pc[t] \in {"g_lock", "g_tag", "g_val", "g_err", "s_lock", "s_tag", "s_val", "s_unlock", "s_err"}

\* C17: the storage is reclaimed exactly when no handle and no setter is
\* left; no get() or set() uses reclaimed storage; with the setter dropped
\* the slot keeps the last value stored and a get() on a remaining handle
\* returns the value the slot held when it took the lock; with every handle
\* dropped a set() through the setter stores its argument and succeeds
C17_RefCountedLifetime ==
    /\ freed <=> (owns = {} /\ ~setterAlive)
    /\ ~setterAlive => data = full
    /\ \A t \in Threads :
          /\ UsesStorage(t) => ~freed
          /\ (pc[t] = "g_ret" /\ ~setterAlive /\ ~sawPoison[t]) => ret[t] = atRead[t]
          /\ (pc[t] = "s_ret" /\ owns = {} /\ ~sawPoison[t]) =>
                sres[t] = OkUnit /\ ~freed /\ (writer = {} => data = lastEntered)

\* every handle is gone and a set() through the setter has stored its argument
C17_Witness ==
    \E t \in Threads :
        /\ owns = {} /\ setterAlive /\ ~freed
        /\ pc[t] = "s_ret" /\ sres[t] = OkUnit /\ data = arg[t] /\ data # initial

====
